---- MODULE Spec2Model ----
(***************************************************************************)
(* The "up" session supervisor of okteto (src/cmd/up.go) as a state         *)
(* machine.  The goroutines of the program are the processes of the model:  *)
(*   - RunUp            (the caller's goroutine, lines 97-121)              *)
(*   - Activate         (the supervisor loop, lines 124-190)                *)
(*   - the Exec task    (go func at lines 169-172, one per iteration)       *)
(*   - the sync monitor (go up.Sy.Monitor at line 309, one per iteration)   *)
(*   - shutdown's two helper tasks (lines 373-378 and 380-388), one pair    *)
(*     per call of shutdown                                                 *)
(* Scopes, channels and Port-Forward Managers are created afresh in every   *)
(* iteration of the loop; the model names each by the number of the         *)
(* iteration that created it (0 is Go's nil).                               *)
(*                                                                         *)
(* The image-name functions of package build, exercised by                 *)
(* src/pkg/cmd/build/image_test.go, are pure: they have a specification of *)
(* their own (BuildSpec), whose initial states draw the arguments and      *)
(* whose actions apply the functions.                                      *)
(***************************************************************************)
EXTENDS Integers, Sequences, FiniteSets, TLC

\* ------------------------------------------------------------------ bounds
\* Iterations of the supervisor loop the model follows.
MaxIter == 2
\* len(up.Dev.Forward)
NumForwards == 1
\* len(up.Dev.Volumes)
NumVolumes == 1
\* Errors of background tasks that one wait of Running is followed through.
MaxLogged == 2
\* Longest image name, in pieces, that BuildSpec draws besides the names of
\* the tests.
MaxImageLen == 4
\* The most environments one RECEIVE_ENVIRONMENTS action carries.
MaxEnvs == 3

Iters == 1..MaxIter
\* A call of shutdown: 0 is RunUp's deferred call, k >= 1 the call Activate
\* makes at the end of iteration k.
ShutdownIds == 0..MaxIter

\* ------------------------------------------------------------------ values
NoVal == "none"
Nil == "nil"
ErrCommandFailed == "ErrCommandFailed"
ErrLostConnection == "ErrLostConnection"
ErrSaveState == "err: term.SaveState"
ErrExec == "err: exec"
ErrDeclined == "err: deployment not found (declined)"
ErrDeactivated == "err: Your Okteto Environment has been deactivated"
ErrNotFound == "err: NotFound"

VARIABLES
    \* RunUp
    mainPc,      \* "start", "select", "shutdown", "done"
    stopCh,      \* the os.Signal channel `stop` (capacity 1): TRUE when it holds a signal
    via,         \* which case of RunUp's select was taken: NoVal, "interrupt", "exit"
    retVal,      \* the value RunUp returns, fixed when its select fires (NoVal before)
    \* Activate
    actPc,       \* position of the supervisor
    retry,       \* the local `retry`
    iter,        \* the iteration that last ran lines 134-137: names up.Context/up.Cancel
                 \* and up.Running (0: nil)
    prevError,   \* result of WaitUntilExitOrInterrupt in this iteration
    exitCh,      \* up.Exit (capacity 1), a sequence
    exitPosted,  \* the value Activate sent on up.Exit (NoVal: none yet)
    \* terminal
    term,        \* state of the local terminal: "orig" or "raw"
    saved,       \* `state` captured by term.SaveState (NoVal: not captured)
    nSaves,      \* number of times term.SaveState ran
    \* devMode
    ops,         \* what the call of devMode of this iteration did (cluster operations and
                 \* prompts, in order), kept until Activate goes on to line 146
    devIn,       \* what the cluster and the user answered to that call
    container,   \* up.Container: the iteration whose DevModeOn returned the container
                 \* it names (0: empty)
    devPod,      \* up.DevPod: the iteration whose devMode resolved the pod it names
                 \* (0: empty)
    \* scope and channels
    cancelled,   \* the scopes (contexts) that have been cancelled, by iteration
    running,     \* the up.Running made in each iteration: NoVal (empty) or the value it holds
    runFrom,     \* for each up.Running, the iteration whose Exec task sent the value it
                 \* holds (0: empty)
    disconnect,  \* up.Disconnect (capacity 1) holds a token
    errChan,     \* up.ErrChan (capacity 1) holds an error
    logged,      \* errors the current call of WaitUntilExitOrInterrupt has logged
    \* port-forward managers
    upDev,       \* up.DevForwarder: the iteration that created it (0: nil)
    upSync,      \* up.SyncForwarder
    devMgr,      \* state of the dev manager of each iteration
    syncMgr,     \* state of the sync manager of each iteration
    nAdded,      \* forwards added so far to the dev manager of this iteration
    \* sync
    syncPc,      \* index in SyncSteps of the next step of startSync
    syType,      \* up.Sy.Type
    syConnected, \* what up.Sy.IsConnected() would report
    wg,          \* up.WG: the iterations whose background tasks have not all finished
    \* exec
    execPc,      \* the Exec task of each iteration
    execArgs,    \* the scope and the pod its Exec call under way was given, as
                 \* read from up.Context and up.DevPod when the call was made
    \* shutdown, by call
    shPc,        \* "idle", "select", "returned"
    stopPc,      \* the stop task of the call: "none", "pending", "end"
    \* package build: the arguments of the call under way and what it returned
    image,       \* argument of GetRepoNameWithoutTag
    dev,         \* arguments of GetDevImageTag
    imageTag,
    imageFromDeployment,
    oktetoRegistryURL,
    called,      \* the function that was applied (NoVal: none yet)
    result,      \* what it returned
    \* package graphql: one query or mutation
    field,       \* the field being resolved (NoVal: none)
    params,      \* graphql.ResolveParams: whether the context carries an
                 \* authenticated user, and the argument "space" / "id"
    cluster,     \* what the back end answers to the calls of the resolver
    workerPc,    \* the goroutine a resolver starts
    ch,          \* its result channel (capacity 1), a sequence
    chClosed,    \* close(ch) was called
    nSent,       \* sends made on ch
    thunkPc,     \* the thunk the resolver returns to the library
    received,    \* the result the thunk received (NoVal: none)
    ret,         \* what the resolver, or its thunk, returned (NoVal: nothing yet)
    nDeleted,    \* calls of app.DeleteSpace
    panicked,    \* a goroutine panicked: the process is gone
    \* frontend: the environments reducer
    envsState,   \* the state the store holds for the reducer
    dispatched,  \* the action last given to the reducer (NoVal: none)
    lastKnown    \* the type of the last action given that the reducer has a case for

mainVars == <<mainPc, stopCh, via, retVal>>
actVars == <<actPc, retry, iter, prevError, exitCh, exitPosted>>
termVars == <<term, saved, nSaves>>
devVars == <<ops, devIn, container, devPod>>
chanVars == <<cancelled, running, runFrom, disconnect, errChan, logged>>
fwdVars == <<upDev, upSync, devMgr, syncMgr, nAdded>>
syncVars == <<syncPc, syType, syConnected, wg>>
execVars == <<execPc, execArgs>>
shVars == <<shPc, stopPc>>
buildVars == <<image, dev, imageTag, imageFromDeployment, oktetoRegistryURL,
               called, result>>
gqlVars == <<field, params, cluster, workerPc, ch, chClosed, nSent, thunkPc,
             received, ret, nDeleted, panicked>>
reducerVars == <<envsState, dispatched, lastKnown>>
upVars == <<mainVars, actVars, termVars, devVars, chanVars, fwdVars, syncVars,
            execVars, shVars>>
\* What the session of up.go leaves alone.
otherVars == <<buildVars, gqlVars, reducerVars>>
vars == <<upVars, buildVars, gqlVars, reducerVars>>

\* No call of devMode is on record.
NoInput == [get |-> NoVal, devOn |-> FALSE, answer |-> FALSE, fail |-> <<NoVal, 0>>]

\* The empty string, and the Dev of no call.
Empty == <<>>
NoDev == [Name |-> Empty, Namespace |-> Empty]

\* No function of package build has been called.
BuildIdle ==
    /\ image = Empty /\ dev = NoDev /\ imageTag = Empty
    /\ imageFromDeployment = Empty /\ oktetoRegistryURL = Empty
    /\ called = NoVal /\ result = Empty

\* No query is being resolved.
\* The data of a result that carries none, and a result not yet there.
NoData == <<>>
NoResult == [data |-> NoData, err |-> NoVal]

GqlIdle ==
    /\ field = NoVal /\ params = NoVal /\ cluster = NoVal
    /\ workerPc = "none" /\ ch = <<>> /\ chClosed = FALSE /\ nSent = 0
    /\ thunkPc = "none" /\ received = NoResult /\ ret = NoResult
    /\ nDeleted = 0 /\ panicked = FALSE

\* Lines 1-13 of environments-reducer.jsx: the state the reducer starts from.
initialEnvironmentsState ==
    [byId |-> ("1234" :> [name |-> "movies",
                          endpoint |-> "https://movies.space.okteto.net"]
               @@ "2345" :> [name |-> "api",
                             endpoint |-> "https://api.space.okteto.net"]),
     isFetching |-> FALSE]

\* The store before any action.
\* No action has been dispatched yet.
NoAction == [type |-> NoVal, environments |-> <<>>]

ReducerIdle ==
    /\ envsState = initialEnvironmentsState
    /\ dispatched = NoAction /\ lastKnown = NoVal

\* No Exec call of the task is under way.
NoArgs == [ctx |-> 0, pod |-> 0]

\* The session before RunUp.
UpInit ==
    /\ mainPc = "start" /\ stopCh = FALSE /\ via = NoVal /\ retVal = NoVal
    /\ actPc = "idle" /\ retry = FALSE /\ iter = 0 /\ prevError = NoVal
    /\ exitCh = <<>> /\ exitPosted = NoVal
    /\ term = "orig" /\ saved = NoVal /\ nSaves = 0
    /\ ops = <<>> /\ devIn = NoInput /\ container = 0 /\ devPod = 0
    /\ cancelled = {} /\ running = [k \in Iters |-> NoVal]
    /\ runFrom = [k \in Iters |-> 0]
    /\ disconnect = FALSE /\ errChan = FALSE /\ logged = 0
    /\ upDev = 0 /\ upSync = 0
    /\ devMgr = [k \in Iters |-> "none"] /\ syncMgr = [k \in Iters |-> "none"]
    /\ nAdded = 0
    /\ syncPc = 1 /\ syType = "sendonly" /\ syConnected = TRUE
    /\ wg = {}
    /\ execPc = [k \in Iters |-> "none"]
    /\ execArgs = [k \in Iters |-> NoArgs]
    /\ shPc = [c \in ShutdownIds |-> "idle"]
    /\ stopPc = [c \in ShutdownIds |-> "none"]

Init == UpInit /\ BuildIdle /\ GqlIdle /\ ReducerIdle

\* RunUp returns to main, which returns its error to the operating system:
\* the process, with all its tasks, ends when RunUp has returned (line 87).
ProcessAlive == mainPc # "done"

\* ------------------------------------------------------------------ RunUp

\* Lines 98-108: build the UpContext, defer shutdown, register the interrupt
\* handler and start Activate.
RunUpStart ==
    /\ mainPc = "start"
    /\ UNCHANGED otherVars
    /\ mainPc' = "select"
    /\ actPc' = "save"
    /\ UNCHANGED <<stopCh, via, retVal, retry, iter, prevError, exitCh, exitPosted,
                   termVars, devVars, chanVars, fwdVars, syncVars, execVars, shVars>>

\* The operating system delivers an interrupt: signal.Notify puts it on `stop`
\* (a signal that finds the channel full is dropped).
Interrupt ==
    /\ mainPc = "select"
    /\ UNCHANGED otherVars
    /\ ~stopCh
    /\ stopCh' = TRUE
    /\ UNCHANGED <<mainPc, via, retVal, actVars, termVars, devVars, chanVars,
                   fwdVars, syncVars, execVars, shVars>>

\* RunUp without `defer up.shutdown()`: on the interrupt it returns at once.
RunUpSelectStop_NoShutdown ==
    /\ mainPc = "select"
    /\ UNCHANGED otherVars
    /\ stopCh
    /\ stopCh' = FALSE
    /\ via' = "interrupt"
    /\ retVal' = Nil
    /\ mainPc' = "done"
    /\ UNCHANGED <<actVars, termVars, devVars, chanVars, fwdVars, syncVars,
                   execVars, shVars>>

\* Lines 110-112 and 120: the select takes `<-stop`; RunUp will return nil.
\* The deferred shutdown runs before the return.
RunUpSelectStop ==
    /\ mainPc = "select"
    /\ UNCHANGED otherVars
    /\ stopCh
    /\ stopCh' = FALSE
    /\ via' = "interrupt"
    /\ retVal' = Nil
    /\ mainPc' = "shutdown"
    /\ UNCHANGED <<actVars, termVars, devVars, chanVars, fwdVars, syncVars,
                   execVars, shVars>>

\* RunUp without `defer up.shutdown()`: on a posted value it returns at once.
RunUpSelectExit_NoShutdown ==
    /\ mainPc = "select"
    /\ UNCHANGED otherVars
    /\ exitCh # <<>>
    /\ exitCh' = Tail(exitCh)
    /\ via' = "exit"
    /\ retVal' = Head(exitCh)
    /\ mainPc' = "done"
    /\ UNCHANGED <<stopCh, actPc, retry, iter, prevError, exitPosted, termVars,
                   devVars, chanVars, fwdVars, syncVars, execVars, shVars>>

\* Lines 113-120: the select takes `err := <-up.Exit`; RunUp will return err
\* (nil included).
RunUpSelectExit ==
    /\ mainPc = "select"
    /\ UNCHANGED otherVars
    /\ exitCh # <<>>
    /\ exitCh' = Tail(exitCh)
    /\ via' = "exit"
    /\ retVal' = Head(exitCh)
    /\ mainPc' = "shutdown"
    /\ UNCHANGED <<stopCh, actPc, retry, iter, prevError, exitPosted, termVars,
                   devVars, chanVars, fwdVars, syncVars, execVars, shVars>>

\* ---------------------------------------------------------------- devMode

\* The calls of devMode that can return an error, by the name the source
\* gives them; volumes.Create is called for the primary volume (argument 0)
\* and for each declared volume i (argument i + 1).
ErrOf(name) ==
    CASE name = "k8Client.GetLocal" -> "err: k8Client.GetLocal"
      [] name = "syncthing.New" -> "err: syncthing.New"
      [] name = "deployments.Get" -> "err: deployments.Get"
      [] name = "secrets.Create" -> "err: secrets.Create"
      [] name = "volumes.Create" -> "err: volumes.Create"
      [] name = "deployments.DevModeOn" -> "err: deployments.DevModeOn"
      [] name = "services.Create" -> "err: services.Create"
      [] name = "pods.GetDevPod(sync)" -> "err: pods.GetDevPod(sync)"
      [] name = "pods.GetDevPod(dev)" -> "err: pods.GetDevPod(dev)"
      [] OTHER -> "err: unknown"

\* The operations that change the cluster.
Mutations == {"secrets.Create", "volumes.Create", "deployments.DevModeOn",
              "services.Create"}

\* Lines 260-264: one volumes.Create per declared volume, in index order.
RECURSIVE VolumeOps(_)
VolumeOps(n) ==
    IF n = 0 THEN <<>> ELSE Append(VolumeOps(n - 1), <<"volumes.Create", n>>)

\* devMode creating the service before it applies dev mode.
devModePlan_ServiceFirst(create) ==
    <<<<"secrets.Create", 0>>, <<"volumes.Create", 0>>>>
    \o VolumeOps(NumVolumes)
    \o (IF create THEN <<<<"services.Create", 0>>>> ELSE <<>>)
    \o <<<<"deployments.DevModeOn", IF create THEN 1 ELSE 0>>>>
    \o <<<<"pods.GetDevPod(sync)", 0>>, <<"pods.GetDevPod(dev)", 0>>>>

\* Lines 252-291: the calls devMode makes once it holds the deployment, in the
\* order of the source; deployments.DevModeOn is logged with its argument
\* `create` (1: true), and services.Create is called only when create is true.
devModePlan(create) ==
    <<<<"secrets.Create", 0>>, <<"volumes.Create", 0>>>>
    \o VolumeOps(NumVolumes)
    \o <<<<"deployments.DevModeOn", IF create THEN 1 ELSE 0>>>>
    \o (IF create THEN <<<<"services.Create", 0>>>> ELSE <<>>)
    \o <<<<"pods.GetDevPod(sync)", 0>>, <<"pods.GetDevPod(dev)", 0>>>>

\* devMode going on after a call has failed: it makes every call of the plan
\* and returns the first error at the end.
RunPlan_KeepGoing(plan, fail) ==
    LET bad == {i \in 1..Len(plan) : plan[i][1] = fail[1] /\ (fail[1] = "volumes.Create" => plan[i][2] = fail[2])} IN
    IF bad = {} THEN [err |-> Nil, ops |-> plan]
    ELSE LET i == CHOOSE j \in bad : \A m \in bad : j <= m IN
         [err |-> ErrOf(plan[i][1]), ops |-> plan]

\* Each call returns its error at once (`if err != nil { return err }`): the
\* calls made are the plan up to and including the first that fails.
RunPlan(plan, fail) ==
    LET bad == {i \in 1..Len(plan) : plan[i][1] = fail[1] /\ (fail[1] = "volumes.Create" => plan[i][2] = fail[2])} IN
    IF bad = {} THEN [err |-> Nil, ops |-> plan]
    ELSE LET i == CHOOSE j \in bad : \A m \in bad : j <= m IN
         [err |-> ErrOf(plan[i][1]), ops |-> SubSeq(plan, 1, i)]

\* devMode with line 232 reading `if !errors.IsNotFound(err)`: a workload that
\* is not found is offered for creation on a retry too.
devModeFrom_PromptOnRetry(isRetry, in) ==
    IF in.get = "error"
    THEN [err |-> ErrOf("deployments.Get"), ops |-> <<<<"deployments.Get=error", 0>>>>]
    ELSE IF in.get = "notfound" /\ ~in.answer
    THEN [err |-> ErrDeclined,
          ops |-> <<<<"deployments.Get=notfound", 0>>, <<"askYesNo=n", 0>>>>]
    ELSE LET create == in.get = "notfound"
             got == IF create
                    THEN <<<<"deployments.Get=notfound", 0>>, <<"askYesNo=y", 0>>,
                           <<"deployments.GevDevSandbox", 0>>>>
                    ELSE <<<<"deployments.Get=found", 0>>>>
         IN  IF isRetry /\ ~in.devOn
             THEN [err |-> ErrDeactivated,
                   ops |-> got \o <<<<"IsDevModeOn=false", 0>>>>]
             ELSE LET pre == IF isRetry THEN got \o <<<<"IsDevModeOn=true", 0>>>>
                             ELSE got
                      r == RunPlan(devModePlan(create), in.fail)
                  IN  [err |-> r.err, ops |-> pre \o r.ops]

\* devMode without lines 248-250: a retry does not look whether the workload
\* is still in dev mode.
devModeFrom_NoDevModeCheck(isRetry, in) ==
    IF in.get = "error"
    THEN [err |-> ErrOf("deployments.Get"), ops |-> <<<<"deployments.Get=error", 0>>>>]
    ELSE IF in.get = "notfound" /\ isRetry
    THEN [err |-> ErrNotFound, ops |-> <<<<"deployments.Get=notfound", 0>>>>]
    ELSE IF in.get = "notfound" /\ ~in.answer
    THEN [err |-> ErrDeclined,
          ops |-> <<<<"deployments.Get=notfound", 0>>, <<"askYesNo=n", 0>>>>]
    ELSE LET create == in.get = "notfound"
             got == IF create
                    THEN <<<<"deployments.Get=notfound", 0>>, <<"askYesNo=y", 0>>,
                           <<"deployments.GevDevSandbox", 0>>>>
                    ELSE <<<<"deployments.Get=found", 0>>>>
             r == RunPlan(devModePlan(create), in.fail)
         IN  [err |-> r.err, ops |-> got \o r.ops]

\* Lines 229-250, from deployments.Get to the dev-mode check, then the plan.
\* in.get is the outcome of deployments.Get ("found", "notfound", "error"),
\* in.answer the user's answer to the prompt, in.devOn what IsDevModeOn(d)
\* reports.  The log tells each outcome with the call.
devModeFrom(isRetry, in) ==
    IF in.get = "error"
    THEN [err |-> ErrOf("deployments.Get"), ops |-> <<<<"deployments.Get=error", 0>>>>]
    ELSE IF in.get = "notfound" /\ isRetry
    THEN [err |-> ErrNotFound, ops |-> <<<<"deployments.Get=notfound", 0>>>>]
    ELSE IF in.get = "notfound" /\ ~in.answer
    THEN [err |-> ErrDeclined,
          ops |-> <<<<"deployments.Get=notfound", 0>>, <<"askYesNo=n", 0>>>>]
    ELSE LET create == in.get = "notfound"
             got == IF create
                    THEN <<<<"deployments.Get=notfound", 0>>, <<"askYesNo=y", 0>>,
                           <<"deployments.GevDevSandbox", 0>>>>
                    ELSE <<<<"deployments.Get=found", 0>>>>
         IN  IF isRetry /\ ~in.devOn
             THEN [err |-> ErrDeactivated,
                   ops |-> got \o <<<<"IsDevModeOn=false", 0>>>>]
             ELSE LET pre == IF isRetry THEN got \o <<<<"IsDevModeOn=true", 0>>>>
                             ELSE got
                      r == RunPlan(devModePlan(create), in.fail)
                  IN  [err |-> r.err, ops |-> pre \o r.ops]

\* devMode (lines 213-294): the error it returns and what it did.
devModeRun(isRetry, in) ==
    IF in.fail = <<"k8Client.GetLocal", 0>>
    THEN [err |-> ErrOf("k8Client.GetLocal"), ops |-> <<>>]
    ELSE IF in.fail = <<"syncthing.New", 0>>
    THEN [err |-> ErrOf("syncthing.New"), ops |-> <<>>]
    ELSE devModeFrom(isRetry, in)

\* Lines 266-271: the call went past `c, err := deployments.DevModeOn(...)`
\* with a nil error, to `up.Container = c.Name`.
DevModeOnReturned(r) ==
    \E i \in 1..Len(r.ops) :
        /\ r.ops[i][1] = "deployments.DevModeOn"
        /\ i < Len(r.ops) \/ r.err = Nil

\* What the cluster and the user may answer to one call of devMode.
FailPoints ==
    {<<NoVal, 0>>, <<"k8Client.GetLocal", 0>>, <<"syncthing.New", 0>>,
     <<"secrets.Create", 0>>, <<"deployments.DevModeOn", 0>>,
     <<"services.Create", 0>>, <<"pods.GetDevPod(sync)", 0>>,
     <<"pods.GetDevPod(dev)", 0>>}
    \cup {<<"volumes.Create", i>> : i \in 0..NumVolumes}

DevInputs ==
    [get : {"found", "notfound", "error"}, devOn : BOOLEAN,
     answer : BOOLEAN, fail : FailPoints]

\* --------------------------------------------------------------- Activate

\* `up.Exit <- v` without the `return`: Activate goes back to the top of its
\* loop.
PostExit_NoReturn(v) ==
    /\ Len(exitCh) < 1
    /\ exitCh' = Append(exitCh, v)
    /\ exitPosted' = v
    /\ actPc' = "top"

\* `up.Exit <- v; return`: the send blocks while the channel is full.
PostExit(v) ==
    /\ Len(exitCh) < 1
    /\ exitCh' = Append(exitCh, v)
    /\ exitPosted' = v
    /\ actPc' = "done"

\* Lines 125-131: capture the terminal state once, before the loop.
ActivateSaveState ==
    /\ ProcessAlive
    /\ UNCHANGED otherVars
    /\ actPc = "save"
    /\ nSaves' = nSaves + 1
    /\ \/ /\ saved' = term
          /\ actPc' = "top"
          /\ UNCHANGED <<exitCh, exitPosted>>
       \/ /\ PostExit(ErrSaveState)
          /\ UNCHANGED saved
    /\ UNCHANGED <<mainVars, retry, iter, prevError, term, devVars, chanVars,
                   fwdVars, syncVars, execVars, shVars>>

\* Lines 133-137: a new scope and new, empty channels for this iteration.
ActivateLoopTop ==
    /\ ProcessAlive
    /\ UNCHANGED otherVars
    /\ actPc = "top"
    /\ iter < MaxIter
    /\ iter' = iter + 1
    /\ disconnect' = FALSE
    /\ errChan' = FALSE
    /\ prevError' = NoVal
    /\ actPc' = "devMode"
    /\ UNCHANGED <<mainVars, retry, exitCh, exitPosted, termVars, devVars,
                   cancelled, running, runFrom, logged, fwdVars, syncVars,
                   execVars, shVars>>

\* Lines 139-144: err := up.devMode(retry).
ActivateDevMode ==
    /\ ProcessAlive
    /\ UNCHANGED otherVars
    /\ actPc = "devMode"
    /\ \E in \in DevInputs :
        LET r == devModeRun(retry, in) IN
        /\ ops' = r.ops
        /\ devIn' = in
        /\ container' = IF DevModeOnReturned(r) THEN iter ELSE container
        \* line 291: up.DevPod = p.Name, the last statement before `return nil`
        /\ devPod' = IF r.err = Nil THEN iter ELSE devPod
        \* line 224: up.Sy is a new engine, in its initial send-only mode
        /\ syType' = IF in.fail \in {<<"k8Client.GetLocal", 0>>, <<"syncthing.New", 0>>}
                      THEN syType ELSE "sendonly"
        /\ IF r.err # Nil
           THEN PostExit(r.err) /\ UNCHANGED retry
           ELSE /\ retry' = TRUE
                /\ actPc' = "newForwarder"
                /\ UNCHANGED <<exitCh, exitPosted>>
    /\ UNCHANGED <<mainVars, iter, prevError, termVars, chanVars, fwdVars,
                   syncPc, syConnected, wg, execVars, shVars>>

\* Line 146: up.DevForwarder = forward.NewPortForwardManager(...).
ActivateNewForwarder ==
    /\ ProcessAlive
    /\ UNCHANGED otherVars
    /\ actPc = "newForwarder"
    /\ upDev' = iter
    /\ devMgr' = [devMgr EXCEPT ![iter] = "new"]
    /\ nAdded' = 0
    /\ ops' = <<>>
    /\ devIn' = NoInput
    /\ UNCHANGED <<container, devPod>>
    /\ actPc' = "addForward"
    /\ UNCHANGED <<mainVars, retry, iter, prevError, exitCh, exitPosted, termVars,
                   chanVars, upSync, syncMgr, syncVars, execVars, shVars>>

\* Lines 147-152: add the next forward of the dev spec; an error ends the session.
ActivateAddForward ==
    /\ ProcessAlive
    /\ UNCHANGED otherVars
    /\ actPc = "addForward"
    /\ nAdded < NumForwards
    /\ \/ /\ nAdded' = nAdded + 1
          /\ UNCHANGED <<actPc, exitCh, exitPosted>>
       \/ /\ PostExit("err: DevForwarder.Add")
          /\ UNCHANGED nAdded
    /\ UNCHANGED <<mainVars, retry, iter, prevError, termVars, devVars, chanVars,
                   upDev, upSync, devMgr, syncMgr, syncVars, execVars, shVars>>

\* Start of a Port-Forward Manager: its forwarders run from now on.  A manager
\* that was stopped before it was started stays stopped.
StartManager(state) == IF state = "new" THEN "started" ELSE state

\* Activate starting the dev manager before the loop of lines 147-152.
ActivateStartForwarder_BeforeAdd ==
    /\ ProcessAlive
    /\ UNCHANGED otherVars
    /\ actPc = "addForward"
    /\ nAdded = 0
    /\ devMgr' = [devMgr EXCEPT ![upDev] = StartManager(@)]
    /\ actPc' = "startSync"
    /\ syncPc' = 1
    /\ UNCHANGED <<mainVars, retry, iter, prevError, exitCh, exitPosted, termVars,
                   devVars, chanVars, upDev, upSync, syncMgr, nAdded, syType,
                   syConnected, wg, execVars, shVars>>

\* Line 153: up.DevForwarder.Start(...), once every forward is added.
ActivateStartForwarder ==
    /\ ProcessAlive
    /\ UNCHANGED otherVars
    /\ actPc = "addForward"
    /\ nAdded = NumForwards
    /\ devMgr' = [devMgr EXCEPT ![upDev] = StartManager(@)]
    /\ actPc' = "startSync"
    /\ syncPc' = 1
    /\ UNCHANGED <<mainVars, retry, iter, prevError, exitCh, exitPosted, termVars,
                   devVars, chanVars, upDev, upSync, syncMgr, nAdded, syType,
                   syConnected, wg, execVars, shVars>>

\* -------------------------------------------------------------- startSync

\* startSync switching the mode before it overrides the remote changes.
SyncSteps_SendReceiveEarly ==
    <<"Sy.Run", "NewPortForwardManager", "Add(RemotePort)", "Add(RemoteGUIPort)",
      "SyncForwarder.Start", "go Sy.Monitor", "WaitForPing", "WaitForCompletion(1)",
      "Type=sendreceive", "OverrideChanges", "WaitForCompletion(2)", "UpdateConfig",
      "Restart">>

\* The statements of startSync (lines 296-333), in the order of the source.
SyncSteps ==
    <<"Sy.Run", "NewPortForwardManager", "Add(RemotePort)", "Add(RemoteGUIPort)",
      "SyncForwarder.Start", "go Sy.Monitor", "WaitForPing", "WaitForCompletion(1)",
      "OverrideChanges", "WaitForCompletion(2)", "Type=sendreceive", "UpdateConfig",
      "Restart">>

\* The statements that return an error.
SyncCanFail ==
    {"Sy.Run", "Add(RemotePort)", "Add(RemoteGUIPort)", "WaitForPing",
     "WaitForCompletion(1)", "OverrideChanges", "WaitForCompletion(2)",
     "UpdateConfig", "Restart"}

\* The effect of statement `step` of startSync when it succeeds.
SyncEffect(step) ==
    /\ wg' = IF step = "Sy.Run" THEN wg \cup {iter} ELSE wg
    /\ upSync' = IF step = "NewPortForwardManager" THEN iter ELSE upSync
    /\ syncMgr' = IF step = "NewPortForwardManager"
                  THEN [syncMgr EXCEPT ![iter] = "new"]
                  ELSE IF step = "SyncForwarder.Start"
                  THEN [syncMgr EXCEPT ![upSync] = StartManager(@)]
                  ELSE syncMgr
    /\ syConnected' = IF step = "WaitForPing" THEN TRUE ELSE syConnected
    /\ syType' = IF step = "Type=sendreceive" THEN "sendreceive" ELSE syType

\* One statement of startSync succeeds; after the last, Activate goes on to
\* line 165.
startSyncStep ==
    /\ ProcessAlive
    /\ UNCHANGED otherVars
    /\ actPc = "startSync"
    /\ SyncEffect(SyncSteps[syncPc])
    /\ IF syncPc = Len(SyncSteps)
       THEN actPc' = "ready" /\ UNCHANGED syncPc
       ELSE syncPc' = syncPc + 1 /\ UNCHANGED actPc
    /\ UNCHANGED <<mainVars, retry, iter, prevError, exitCh, exitPosted, termVars,
                   devVars, chanVars, upDev, devMgr, nAdded, execVars, shVars>>

\* Activate answering an error of startSync with a reconnect.
startSyncFail_Reconnect ==
    /\ ProcessAlive
    /\ UNCHANGED otherVars
    /\ actPc = "startSync"
    /\ SyncSteps[syncPc] \in SyncCanFail
    /\ actPc' = "shutdown"
    /\ UNCHANGED <<mainVars, retry, iter, prevError, exitCh, exitPosted, termVars,
                   devVars, chanVars, fwdVars, syncVars, execVars, shVars>>

\* One statement of startSync returns an error: startSync returns it and
\* Activate posts it (lines 161-164).
startSyncFail ==
    /\ ProcessAlive
    /\ UNCHANGED otherVars
    /\ actPc = "startSync"
    /\ SyncSteps[syncPc] \in SyncCanFail
    /\ PostExit("err: startSync")
    /\ UNCHANGED <<mainVars, retry, iter, prevError, termVars, devVars, chanVars,
                   fwdVars, syncVars, execVars, shVars>>

\* ---------------------------------------------------------------- Running

\* Lines 165-172: print the banner and start the Exec task.
ActivateRunCommand ==
    /\ ProcessAlive
    /\ UNCHANGED otherVars
    /\ actPc = "ready"
    /\ execPc' = [execPc EXCEPT ![iter] = "spawned"]
    /\ UNCHANGED execArgs
    /\ actPc' = "wait"
    /\ UNCHANGED <<mainVars, retry, iter, prevError, exitCh, exitPosted, termVars,
                   devVars, chanVars, fwdVars, syncVars, shVars>>

\* Lines 196-202: the wait receives the command's result from up.Running.
WaitRunning ==
    /\ ProcessAlive
    /\ UNCHANGED otherVars
    /\ actPc = "wait"
    /\ running[iter] # NoVal
    /\ prevError' = IF running[iter] # Nil THEN ErrCommandFailed ELSE Nil
    /\ running' = [running EXCEPT ![iter] = NoVal]
    /\ runFrom' = [runFrom EXCEPT ![iter] = 0]
    /\ logged' = 0
    /\ actPc' = "restore"
    /\ UNCHANGED <<mainVars, retry, iter, exitCh, exitPosted, termVars, devVars,
                   cancelled, disconnect, errChan, fwdVars, syncVars, execVars,
                   shVars>>

\* The wait returning the error it received from up.ErrChan.
WaitErrChan_Fatal ==
    /\ ProcessAlive
    /\ UNCHANGED otherVars
    /\ actPc = "wait"
    /\ errChan
    /\ errChan' = FALSE
    /\ logged' = 0
    /\ prevError' = ErrCommandFailed
    /\ actPc' = "restore"
    /\ UNCHANGED <<mainVars, retry, iter, exitCh, exitPosted, termVars, devVars,
                   cancelled, running, runFrom, disconnect, fwdVars, syncVars,
                   execVars, shVars>>

\* Lines 204-205: an error from a background task is logged; the wait goes on.
WaitErrChan ==
    /\ ProcessAlive
    /\ UNCHANGED otherVars
    /\ actPc = "wait"
    /\ errChan
    /\ errChan' = FALSE
    /\ logged' = logged + 1
    /\ UNCHANGED <<mainVars, actVars, termVars, devVars, cancelled, running, runFrom,
                   disconnect, fwdVars, syncVars, execVars, shVars>>

\* Lines 207-208: the wait receives the disconnect signal.
WaitDisconnect ==
    /\ ProcessAlive
    /\ UNCHANGED otherVars
    /\ actPc = "wait"
    /\ disconnect
    /\ disconnect' = FALSE
    /\ prevError' = ErrLostConnection
    /\ logged' = 0
    /\ actPc' = "restore"
    /\ UNCHANGED <<mainVars, retry, iter, exitCh, exitPosted, termVars, devVars,
                   cancelled, running, runFrom, errChan, fwdVars, syncVars, execVars,
                   shVars>>

\* Lines 175-177: term.RestoreTerminal(inFd, state); a failure is only logged.
ActivateRestoreTerminal ==
    /\ ProcessAlive
    /\ UNCHANGED otherVars
    /\ actPc = "restore"
    /\ \/ term' = saved
       \/ term' = term
    /\ actPc' = "decide"
    /\ UNCHANGED <<mainVars, retry, iter, prevError, exitCh, exitPosted, saved,
                   nSaves, devVars, chanVars, fwdVars, syncVars, execVars, shVars>>

\* Line 180 without its second disjunct: only a lost connection reconnects.
ShouldReconnect_LostOnly(err, connected) == err = ErrLostConnection

\* Line 180 without the test of the sync engine: every failure reconnects.
ShouldReconnect_AnyFailure(err, connected) ==
    err = ErrLostConnection \/ err = ErrCommandFailed

\* Line 180: the condition under which the supervisor reconnects.
ShouldReconnect(err, connected) ==
    err = ErrLostConnection \/ (err = ErrCommandFailed /\ ~connected)

\* Lines 179-184: reconnect: run shutdown, then `continue`.
ActivateReconnect ==
    /\ ProcessAlive
    /\ UNCHANGED otherVars
    /\ actPc = "decide"
    /\ prevError # Nil
    /\ ShouldReconnect(prevError, syConnected)
    /\ actPc' = "shutdown"
    /\ UNCHANGED <<mainVars, retry, iter, prevError, exitCh, exitPosted, termVars,
                   devVars, chanVars, fwdVars, syncVars, execVars, shVars>>

\* Lines 187-188: post the cause on up.Exit and return.
ActivateExit ==
    /\ ProcessAlive
    /\ UNCHANGED otherVars
    /\ actPc = "decide"
    /\ ~(prevError # Nil /\ ShouldReconnect(prevError, syConnected))
    /\ PostExit(prevError)
    /\ UNCHANGED <<mainVars, retry, iter, prevError, termVars, devVars, chanVars,
                   fwdVars, syncVars, execVars, shVars>>

\* ------------------------------------------------------- the Exec task

\* Exec with a tty attaches the local terminal to the remote process and puts
\* it in raw mode (spec, Terminal discipline).
ExecAttach == "raw"

\* What a call of exec.Exec is given (lines 337-341 and 350-354): the task
\* reads the fields up.Context and up.DevPod when it makes the call.
ExecCall == [ctx |-> iter, pod |-> devPod]

\* Lines 336-348: the task starts the reap of lingering processes.
runCommandReap(k) ==
    /\ ProcessAlive
    /\ UNCHANGED otherVars
    /\ execPc[k] = "spawned"
    /\ execPc' = [execPc EXCEPT ![k] = "reap"]
    /\ execArgs' = [execArgs EXCEPT ![k] = ExecCall]
    /\ term' = ExecAttach
    /\ UNCHANGED <<mainVars, actVars, saved, nSaves, devVars, chanVars,
                   fwdVars, syncVars, shVars>>

\* Lines 348-349: the reap has returned, its outcome is dropped, and the
\* user's command starts.
runCommandExec(k) ==
    /\ ProcessAlive
    /\ UNCHANGED otherVars
    /\ execPc[k] = "reap"
    /\ execPc' = [execPc EXCEPT ![k] = "cmd"]
    /\ execArgs' = [execArgs EXCEPT ![k] = ExecCall]
    /\ term' = ExecAttach
    /\ UNCHANGED <<mainVars, actVars, saved, nSaves, devVars, chanVars,
                   fwdVars, syncVars, shVars>>

\* Lines 349-361: the user's command returns.
runCommandReturn(k) ==
    /\ ProcessAlive
    /\ UNCHANGED otherVars
    /\ execPc[k] = "cmd"
    /\ execPc' = [execPc EXCEPT ![k] = "send"]
    /\ execArgs' = [execArgs EXCEPT ![k] = NoArgs]
    /\ UNCHANGED <<mainVars, actVars, termVars, devVars, chanVars, fwdVars,
                   syncVars, shVars>>

\* Line 170: `up.Running <- result`, the result being nil or an error (a
\* non-zero exit, a broken stream, a cancelled scope).  The task reads the
\* field up.Running without synchronisation, at some moment between its start
\* and the send: it sends on the channel of its own iteration or of a later
\* one, and blocks while that channel is full.
runCommandSend(k) ==
    /\ ProcessAlive
    /\ UNCHANGED otherVars
    /\ execPc[k] = "send"
    /\ \E j \in k..iter, r \in {Nil, ErrExec} :
        /\ running[j] = NoVal
        /\ running' = [running EXCEPT ![j] = r]
        /\ runFrom' = [runFrom EXCEPT ![j] = k]
    /\ execPc' = [execPc EXCEPT ![k] = "done"]
    /\ UNCHANGED execArgs
    /\ UNCHANGED <<mainVars, actVars, termVars, devVars, cancelled, disconnect,
                   errChan, logged, fwdVars, syncVars, shVars>>

\* ---------------------------------------------------- background tasks

\* The supervisor is in, or just out of, the wait of Running.  What the
\* background tasks post before the wait stays in the buffered channels until
\* the wait begins, and what they post after it is received by nobody: the
\* model lets them post during the wait only.  The state of the connection is
\* read at line 180 only.
InWait == actPc = "wait"
AroundWait == actPc \in {"wait", "restore", "decide"}

\* The peer of the sync engine is lost.
ConnectionLost ==
    /\ ProcessAlive
    /\ UNCHANGED otherVars
    /\ AroundWait
    /\ syConnected
    /\ syConnected' = FALSE
    /\ UNCHANGED <<mainVars, actVars, termVars, devVars, chanVars, fwdVars,
                   syncPc, syType, wg, execVars, shVars>>

\* The monitor started at line 309 with the up.Disconnect of its iteration
\* posts on it when the peer is lost (spec 4.3).  A post on the channel of an
\* iteration that is over is received by nobody.
MonitorDisconnect ==
    /\ ProcessAlive
    /\ UNCHANGED otherVars
    /\ InWait
    /\ ~syConnected
    /\ ~disconnect
    /\ disconnect' = TRUE
    /\ UNCHANGED <<mainVars, actVars, termVars, devVars, cancelled, running, runFrom,
                   errChan, logged, fwdVars, syncVars, execVars, shVars>>

\* A forwarder of a started manager breaks and posts its error on the
\* up.ErrChan the manager was built with (lines 146 and 301; spec 4.2).  A
\* post on the channel of an iteration that is over is received by nobody.
ForwarderError ==
    /\ ProcessAlive
    /\ UNCHANGED otherVars
    /\ InWait
    /\ devMgr[iter] = "started" \/ syncMgr[iter] = "started"
    /\ ~errChan
    /\ logged < MaxLogged
    /\ errChan' = TRUE
    /\ UNCHANGED <<mainVars, actVars, termVars, devVars, cancelled, running, runFrom,
                   disconnect, logged, fwdVars, syncVars, execVars, shVars>>

\* The background tasks of a cancelled scope finish and leave the wait-group.
TasksDone(k) ==
    /\ ProcessAlive
    /\ UNCHANGED otherVars
    /\ k \in wg
    /\ k \in cancelled
    /\ wg' = wg \ {k}
    /\ UNCHANGED <<mainVars, actVars, termVars, devVars, chanVars, fwdVars,
                   syncPc, syType, syConnected, execVars, shVars>>

\* --------------------------------------------------------------- shutdown

\* Stop of a Port-Forward Manager: idempotent (spec 4.2).
StopManager(state) == "stopped"

\* The caller of call c of shutdown stands at its call: RunUp at its deferred
\* call (line 104), Activate at line 182 of iteration c.
AtShutdown(c) ==
    IF c = 0 THEN mainPc = "shutdown" ELSE actPc = "shutdown" /\ iter = c

\* The session is already shut down: no live scope, no manager left to stop.
SessionDown ==
    /\ iter = 0 \/ iter \in cancelled
    /\ upDev = 0 \/ devMgr[upDev] = "stopped"
    /\ upSync = 0 \/ syncMgr[upSync] = "stopped"

\* shutdown without the test `up.Cancel != nil` of line 367.
shutdownBegin_NoNilGuard(c) ==
    /\ ProcessAlive
    /\ UNCHANGED otherVars
    /\ AtShutdown(c)
    /\ shPc[c] = "idle"
    /\ cancelled' = cancelled \cup {iter}
    /\ shPc' = [shPc EXCEPT ![c] = "select"]
    /\ stopPc' = [stopPc EXCEPT ![c] = "pending"]
    /\ UNCHANGED <<mainVars, actVars, termVars, devVars, running, runFrom, disconnect,
                   errChan, logged, fwdVars, syncVars, execVars>>

\* Lines 366-388: cancel the scope if there is one, start the task that waits
\* for the wait-group and the task that stops the managers.
shutdownBegin(c) ==
    /\ ProcessAlive
    /\ UNCHANGED otherVars
    /\ AtShutdown(c)
    /\ shPc[c] = "idle"
    /\ cancelled' = IF iter # 0 THEN cancelled \cup {iter} ELSE cancelled
    /\ shPc' = [shPc EXCEPT ![c] = "select"]
    /\ stopPc' = [stopPc EXCEPT ![c] = "pending"]
    /\ UNCHANGED <<mainVars, actVars, termVars, devVars, running, runFrom, disconnect,
                   errChan, logged, fwdVars, syncVars, execVars>>

\* Lines 380-388: the stop task reads up.DevForwarder and up.SyncForwarder and
\* stops each that is not nil.
shutdownStop(c) ==
    /\ ProcessAlive
    /\ UNCHANGED otherVars
    /\ stopPc[c] = "pending"
    /\ devMgr' = IF upDev # 0 THEN [devMgr EXCEPT ![upDev] = StopManager(@)]
                 ELSE devMgr
    /\ syncMgr' = IF upSync # 0 THEN [syncMgr EXCEPT ![upSync] = StopManager(@)]
                  ELSE syncMgr
    /\ stopPc' = [stopPc EXCEPT ![c] = "end"]
    /\ UNCHANGED <<mainVars, actVars, termVars, devVars, chanVars, upDev, upSync,
                   nAdded, syncVars, execVars, shPc>>

\* shutdown returns to its caller: RunUp returns (line 117 or 120), Activate
\* continues its loop (line 183).
shutdownReturn(c) ==
    /\ shPc' = [shPc EXCEPT ![c] = "returned"]
    /\ IF c = 0
       THEN mainPc' = "done" /\ UNCHANGED actPc
       ELSE actPc' = "top" /\ UNCHANGED mainPc
    /\ UNCHANGED <<stopCh, via, retVal, retry, iter, prevError, exitCh, exitPosted,
                   termVars, devVars, chanVars, fwdVars, syncVars, execVars,
                   stopPc>>

\* Lines 373-378 and 391-393: the wait-group is drained, the waiting task
\* closes `done` and the select returns.
shutdownDone(c) ==
    /\ ProcessAlive
    /\ UNCHANGED otherVars
    /\ shPc[c] = "select"
    /\ wg = {}
    /\ shutdownReturn(c)

\* shutdown ending in a plain `<-done`: no timer.
shutdownWatchdog_None(c) ==
    /\ ProcessAlive
    /\ UNCHANGED otherVars
    /\ shPc[c] = "select"
    /\ wg = {}
    /\ shutdownReturn(c)

\* Lines 394-396: the one-second timer fires.
shutdownWatchdog(c) ==
    /\ ProcessAlive
    /\ UNCHANGED otherVars
    /\ shPc[c] = "select"
    /\ shutdownReturn(c)

\* ------------------------------------------------------------------- Next

Next ==
    \/ RunUpStart
    \/ Interrupt
    \/ RunUpSelectStop
    \/ RunUpSelectExit
    \/ ActivateSaveState
    \/ ActivateLoopTop
    \/ ActivateDevMode
    \/ ActivateNewForwarder
    \/ ActivateAddForward
    \/ ActivateStartForwarder
    \/ startSyncStep
    \/ startSyncFail
    \/ ActivateRunCommand
    \/ WaitRunning
    \/ WaitErrChan
    \/ WaitDisconnect
    \/ ActivateRestoreTerminal
    \/ ActivateReconnect
    \/ ActivateExit
    \/ ConnectionLost
    \/ MonitorDisconnect
    \/ ForwarderError
    \/ \E k \in Iters :
        \/ runCommandReap(k)
        \/ runCommandExec(k)
        \/ runCommandReturn(k)
        \/ runCommandSend(k)
        \/ TasksDone(k)
    \/ \E c \in ShutdownIds :
        \/ shutdownBegin(c)
        \/ shutdownStop(c)
        \/ shutdownDone(c)
        \/ shutdownWatchdog(c)

Spec == Init /\ [][Next]_vars

\* The scheduler runs every task that can take a step, and a timer that was
\* set fires: shutdown's own steps are taken when they can be.  Nothing makes
\* a background task finish or a stop task complete.
FairSpec ==
    /\ Spec
    /\ \A c \in ShutdownIds :
        /\ WF_vars(shutdownBegin(c))
        /\ WF_vars(shutdownWatchdog(c))

\* ===================================================== package build
\* A string is the sequence of its pieces: each of the separators "/", ":",
\* "@" and "." is a piece, and so is each run of other characters.

\* strings.Index: the place of the first piece c of s (0: none).
IndexOf(s, c) ==
    IF \E i \in 1..Len(s) : s[i] = c
    THEN CHOOSE i \in 1..Len(s) : s[i] = c /\ \A j \in 1..(i - 1) : s[j] # c
    ELSE 0

\* strings.LastIndex: the place of the last piece c of s (0: none).
LastIndexOf(s, c) ==
    IF \E i \in 1..Len(s) : s[i] = c
    THEN CHOOSE i \in 1..Len(s) : s[i] = c /\ \A j \in (i + 1)..Len(s) : s[j] # c
    ELSE 0

\* s[:i], the pieces of s before place i.
Before(s, i) == SubSeq(s, 1, i - 1)

\* GetRepoNameWithoutTag: the name up to its digest, or else up to the ":"
\* of its last path component; a ":" followed by a "/" is the port of the
\* registry host.
GetRepoNameWithoutTag(name) ==
    IF IndexOf(name, "@") # 0 THEN Before(name, IndexOf(name, "@"))
    ELSE IF LastIndexOf(name, ":") > LastIndexOf(name, "/")
         THEN Before(name, LastIndexOf(name, ":"))
    ELSE name

\* fmt.Sprintf("%s/%s/%s:okteto", registry, namespace, name)
OktetoImage(registry, d) ==
    registry \o <<"/">> \o d.Namespace \o <<"/">> \o d.Name \o <<":", "okteto">>

\* GetDevImageTag: the explicit tag, else the image of the Okteto registry,
\* else the deployment's repository with the tag "okteto".
GetDevImageTag(d, tag, fromDeployment, registry) ==
    IF tag # Empty THEN tag
    ELSE IF registry # Empty THEN OktetoImage(registry, d)
    ELSE GetRepoNameWithoutTag(fromDeployment) \o <<":", "okteto">>

\* okteto.CloudRegistryURL, as the expected value of the test "okteto" spells
\* it (image_test.go lines 115-116).
CloudRegistryURL == <<"registry", ".", "cloud", ".", "okteto", ".", "net">>

Sha256 == "e78ad0d316485b7dbffa944a92b29ea4fa26d53c63054605c4fb7a8b787a673c"

\* A table that expects the port of the registry host to go as a tag.
RepoNameTests_PortAsTag == {
    [image |-> <<"localhost", ":", "5000", "/", "test", "/", "ubuntu">>,
     expected |-> <<"localhost">>] }

\* The table of Test_GetRepoNameWithoutTag (lines 24-74).
RepoNameTests == {
    [image |-> <<"ubuntu", ":", "2">>, expected |-> <<"ubuntu">>],
    [image |-> <<"ubuntu">>, expected |-> <<"ubuntu">>],
    [image |-> <<"test", "/", "ubuntu", ":", "2">>,
     expected |-> <<"test", "/", "ubuntu">>],
    [image |-> <<"test", "/", "ubuntu">>, expected |-> <<"test", "/", "ubuntu">>],
    [image |-> <<"registry", "/", "gitlab", ".", "com", "/", "test", "/", "ubuntu",
                 ":", "2">>,
     expected |-> <<"registry", "/", "gitlab", ".", "com", "/", "test", "/",
                    "ubuntu">>],
    [image |-> <<"registry", "/", "gitlab", ".", "com", "/", "test", "/", "ubuntu">>,
     expected |-> <<"registry", "/", "gitlab", ".", "com", "/", "test", "/",
                    "ubuntu">>],
    [image |-> <<"localhost", ":", "5000", "/", "test", "/", "ubuntu", ":", "2">>,
     expected |-> <<"localhost", ":", "5000", "/", "test", "/", "ubuntu">>],
    [image |-> <<"localhost", ":", "5000", "/", "test", "/", "ubuntu">>,
     expected |-> <<"localhost", ":", "5000", "/", "test", "/", "ubuntu">>],
    [image |-> <<"pchico83", "/", "test", "@", "sha256", ":", Sha256>>,
     expected |-> <<"pchico83", "/", "test">>] }

\* A table that expects the Okteto registry to win over an explicit tag.
DevImageTests_RegistryWins == {
    [dev |-> [Name |-> <<"dev">>, Namespace |-> <<"ns">>],
     imageTag |-> <<"imageTag">>, imageFromDeployment |-> Empty,
     oktetoRegistryURL |-> CloudRegistryURL,
     expected |-> <<"registry", ".", "cloud", ".", "okteto", ".", "net", "/", "ns",
                    "/", "dev", ":", "okteto">>] }

\* The table of Test_GetDevImageTag (lines 86-126).
DevImageTests == {
    [dev |-> [Name |-> <<"dev">>, Namespace |-> <<"ns">>],
     imageTag |-> <<"imageTag">>, imageFromDeployment |-> Empty,
     oktetoRegistryURL |-> Empty, expected |-> <<"imageTag">>],
    [dev |-> [Name |-> <<"dev">>, Namespace |-> <<"ns">>],
     imageTag |-> <<"imageTag">>, imageFromDeployment |-> Empty,
     oktetoRegistryURL |-> CloudRegistryURL, expected |-> <<"imageTag">>],
    [dev |-> [Name |-> <<"dev">>, Namespace |-> <<"ns">>],
     imageTag |-> Empty, imageFromDeployment |-> Empty,
     oktetoRegistryURL |-> CloudRegistryURL,
     expected |-> <<"registry", ".", "cloud", ".", "okteto", ".", "net", "/", "ns",
                    "/", "dev", ":", "okteto">>],
    [dev |-> [Name |-> <<"dev">>, Namespace |-> <<"ns">>],
     imageTag |-> Empty, imageFromDeployment |-> <<"okteto", "/", "test", ":", "2">>,
     oktetoRegistryURL |-> Empty,
     expected |-> <<"okteto", "/", "test", ":", "okteto">>] }

\* The arguments BuildSpec draws: the images of the tests and every name of
\* up to MaxImageLen pieces over a small alphabet.
Pieces == {"a", "/", ":", "@"}
Images ==
    {t.image : t \in RepoNameTests}
        \cup UNION {[1..n -> Pieces] : n \in 0..MaxImageLen}
Devs == {t.dev : t \in DevImageTests}
            \cup {[Name |-> <<"web">>, Namespace |-> <<"staging">>]}
ImageTags == {t.imageTag : t \in DevImageTests}
                \cup {<<"okteto", "/", "web", ":", "dev">>}
DeploymentImages ==
    {t.imageFromDeployment : t \in DevImageTests}
        \cup {<<"ubuntu">>,
              <<"localhost", ":", "5000", "/", "test", "/", "ubuntu", ":", "2">>}
RegistryURLs == {t.oktetoRegistryURL : t \in DevImageTests}

\* A test is about to call one of the two functions with its arguments.
BuildInit ==
    /\ UpInit /\ GqlIdle /\ ReducerIdle
    /\ called = NoVal /\ result = Empty
    /\ \/ /\ image \in Images
          /\ dev = NoDev /\ imageTag = Empty
          /\ imageFromDeployment = Empty /\ oktetoRegistryURL = Empty
       \/ /\ image = Empty
          /\ dev \in Devs /\ imageTag \in ImageTags
          /\ imageFromDeployment \in DeploymentImages
          /\ oktetoRegistryURL \in RegistryURLs

\* Line 77: result := GetRepoNameWithoutTag(tt.image)
CallGetRepoNameWithoutTag ==
    /\ called = NoVal
    /\ dev = NoDev
    /\ result' = GetRepoNameWithoutTag(image)
    /\ called' = "GetRepoNameWithoutTag"
    /\ UNCHANGED <<upVars, gqlVars, reducerVars, image, dev, imageTag,
                   imageFromDeployment, oktetoRegistryURL>>

\* Line 129: result := GetDevImageTag(tt.dev, tt.imageTag,
\* tt.imageFromDeployment, tt.oktetoRegistryURL)
CallGetDevImageTag ==
    /\ called = NoVal
    /\ dev # NoDev
    /\ result' = GetDevImageTag(dev, imageTag, imageFromDeployment, oktetoRegistryURL)
    /\ called' = "GetDevImageTag"
    /\ UNCHANGED <<upVars, gqlVars, reducerVars, image, dev, imageTag,
                   imageFromDeployment, oktetoRegistryURL>>

BuildNext == CallGetRepoNameWithoutTag \/ CallGetDevImageTag

BuildSpec == BuildInit /\ [][BuildNext]_vars

\* ==================================================== package graphql
\* The resolvers of src/unnamed/part_000.  A query is one initial state: the
\* field asked for, its argument, whether the context carries an authenticated
\* user, and what the back end answers.

Fields == {"environments", "space", "databases", "deleteSpace"}
\* The fields whose resolver starts a goroutine and returns a thunk.
AsyncFields == {"environments", "space", "databases"}

\* u.GithubID of the caller, and the ids a query may name.
CallerGithubID == "alice"
SpaceIds == {CallerGithubID, "team"}

ErrAuth == "err: getAuthenticatedUser"
ErrGetSpace == "err: namespaces.GetSpaceByID"

\* Lines 187-190, 274-277 and 826-829: the caller's own space unless the
\* argument names one.
SpaceOf(p) == IF p.arg # NoVal THEN p.arg ELSE CallerGithubID

\* The error a failed listing is answered with (lines 200 and 287).
ListError(f) ==
    IF f = "environments" THEN "failed to get your environments"
    ELSE "failed to get your databases"

\* deleteSpace without the test of lines 834-837.
deleteSpace_NoOwnerCheck(p, c) ==
    IF ~p.auth THEN [data |-> NoData, err |-> ErrAuth, deleted |-> 0]
    ELSE IF ~c.lookup THEN [data |-> NoData, err |-> ErrGetSpace, deleted |-> 0]
    ELSE IF SpaceOf(p) = CallerGithubID
    THEN [data |-> NoData, err |-> "the personal namespace cannot be deleted",
          deleted |-> 0]
    ELSE IF ~c.op
    THEN [data |-> NoData, err |-> "failed to delete space", deleted |-> 1]
    ELSE [data |-> <<"space", SpaceOf(p)>>, err |-> Nil, deleted |-> 1]

\* Lines 819-847: the resolver of deleteSpace: what it returns and how many
\* times it calls app.DeleteSpace.
deleteSpace(p, c) ==
    IF ~p.auth THEN [data |-> NoData, err |-> ErrAuth, deleted |-> 0]
    ELSE IF ~c.lookup THEN [data |-> NoData, err |-> ErrGetSpace, deleted |-> 0]
    ELSE IF ~c.owner THEN [data |-> NoData, err |-> "forbidden", deleted |-> 0]
    ELSE IF SpaceOf(p) = CallerGithubID
    THEN [data |-> NoData, err |-> "the personal namespace cannot be deleted",
          deleted |-> 0]
    ELSE IF ~c.op
    THEN [data |-> NoData, err |-> "failed to delete space", deleted |-> 1]
    ELSE [data |-> <<"space", SpaceOf(p)>>, err |-> Nil, deleted |-> 1]

\* A query arrives.  The argument of deleteSpace is declared non-null (line
\* 816): the library resolves the field only when it is given.
GqlInit ==
    /\ UpInit /\ BuildIdle /\ ReducerIdle
    /\ field \in Fields
    /\ params \in [auth : BOOLEAN, arg : SpaceIds \cup {NoVal}]
    /\ field = "deleteSpace" => params.arg # NoVal
    /\ cluster \in [lookup : BOOLEAN, owner : BOOLEAN, op : BOOLEAN]
    /\ workerPc = "none" /\ ch = <<>> /\ chClosed = FALSE /\ nSent = 0
    /\ thunkPc = "none" /\ received = NoResult /\ ret = NoResult
    /\ nDeleted = 0 /\ panicked = FALSE

\* `ch <- v`: a send on a closed channel panics, a send on a full channel
\* waits.
ChanSend(v) ==
    IF chClosed
    THEN panicked' = TRUE /\ UNCHANGED <<ch, nSent>>
    ELSE /\ Len(ch) < 1
         /\ ch' = Append(ch, v)
         /\ nSent' = nSent + 1
         /\ UNCHANGED panicked

\* Lines 179-181 and 208 (228-231 and 247, 266-268 and 295): the resolver
\* makes the channel, starts the worker and returns the thunk.
Resolve ==
    /\ ~panicked
    /\ field \in AsyncFields
    /\ workerPc = "none"
    /\ workerPc' = "auth"
    /\ thunkPc' = "returned"
    /\ UNCHANGED <<upVars, buildVars, reducerVars, field, params, cluster, ch,
                   chClosed, nSent, received, ret, nDeleted, panicked>>

\* Lines 182-186: the worker asks for the authenticated user.
WorkerAuthenticate ==
    /\ ~panicked
    /\ workerPc = "auth"
    /\ IF params.auth
       THEN workerPc' = "args" /\ UNCHANGED <<ch, nSent, panicked>>
       ELSE ChanSend([data |-> NoData, err |-> ErrAuth]) /\ workerPc' = "end"
    /\ UNCHANGED <<upVars, buildVars, reducerVars, field, params, cluster,
                   chClosed, thunkPc, received, ret, nDeleted>>

\* Lines 187-190 and 274-277 test the argument for nil before they assert its
\* type; line 237 asserts `params.Args["id"].(string)` at once, which panics
\* when the argument was not given.
WorkerArgs ==
    /\ ~panicked
    /\ workerPc = "args"
    /\ IF field = "space" /\ params.arg = NoVal
       THEN panicked' = TRUE /\ workerPc' = "panic"
       ELSE workerPc' = "lookup" /\ UNCHANGED panicked
    /\ UNCHANGED <<upVars, buildVars, reducerVars, field, params, cluster, ch,
                   chClosed, nSent, thunkPc, received, ret, nDeleted>>

\* Lines 191-195 (238-242, 278-282): namespaces.GetSpaceByID.
WorkerGetSpace ==
    /\ ~panicked
    /\ workerPc = "lookup"
    /\ IF cluster.lookup
       THEN /\ workerPc' = IF field = "space" THEN "send" ELSE "list"
            /\ UNCHANGED <<ch, nSent, panicked>>
       ELSE ChanSend([data |-> NoData, err |-> ErrGetSpace]) /\ workerPc' = "end"
    /\ UNCHANGED <<upVars, buildVars, reducerVars, field, params, cluster,
                   chClosed, thunkPc, received, ret, nDeleted>>

\* Lines 197-202 and 284-289: app.ListDevEnvs / app.ListDatabases.
WorkerList ==
    /\ ~panicked
    /\ workerPc = "list"
    /\ IF cluster.op
       THEN workerPc' = "send" /\ UNCHANGED <<ch, nSent, panicked>>
       ELSE ChanSend([data |-> NoData, err |-> ListError(field)]) /\ workerPc' = "end"
    /\ UNCHANGED <<upVars, buildVars, reducerVars, field, params, cluster,
                   chClosed, thunkPc, received, ret, nDeleted>>

\* Lines 204, 243 and 291: the worker sends the data.
WorkerSendData ==
    /\ ~panicked
    /\ workerPc = "send"
    /\ ChanSend([data |-> <<field, SpaceOf(params)>>, err |-> Nil])
    /\ workerPc' = "close"
    /\ UNCHANGED <<upVars, buildVars, reducerVars, field, params, cluster,
                   chClosed, thunkPc, received, ret, nDeleted>>

\* Lines 205, 244 and 292: close(ch).
WorkerClose ==
    /\ ~panicked
    /\ workerPc = "close"
    /\ chClosed' = TRUE
    /\ workerPc' = "end"
    /\ UNCHANGED <<upVars, buildVars, reducerVars, field, params, cluster, ch,
                   nSent, thunkPc, received, ret, nDeleted, panicked>>

\* The library calls the thunk the resolver returned.
ThunkCall ==
    /\ ~panicked
    /\ thunkPc = "returned"
    /\ thunkPc' = "recv"
    /\ UNCHANGED <<upVars, buildVars, reducerVars, field, params, cluster,
                   workerPc, ch, chClosed, nSent, received, ret, nDeleted,
                   panicked>>

\* Lines 211, 249 and 297: `r := <-ch` takes the value the channel holds; it
\* gets the zero value from a closed, empty channel and waits otherwise.
ThunkReceive ==
    /\ ~panicked
    /\ thunkPc = "recv"
    /\ \/ /\ ch # <<>>
          /\ received' = Head(ch)
          /\ ch' = Tail(ch)
       \/ /\ ch = <<>> /\ chClosed
          /\ received' = [data |-> NoData, err |-> Nil]
          /\ UNCHANGED ch
    /\ thunkPc' = "got"
    /\ UNCHANGED <<upVars, buildVars, reducerVars, field, params, cluster,
                   workerPc, chClosed, nSent, ret, nDeleted, panicked>>

\* Lines 212-215: the thunk returns the error if there is one, the data
\* otherwise.
ThunkReturn ==
    /\ ~panicked
    /\ thunkPc = "got"
    /\ ret' = IF received.err # Nil THEN [data |-> NoData, err |-> received.err]
              ELSE [data |-> received.data, err |-> Nil]
    /\ thunkPc' = "done"
    /\ UNCHANGED <<upVars, buildVars, reducerVars, field, params, cluster,
                   workerPc, ch, chClosed, nSent, received, nDeleted, panicked>>

\* Lines 819-847: the resolver of deleteSpace runs in the caller's goroutine.
ResolveDeleteSpace ==
    /\ ~panicked
    /\ field = "deleteSpace"
    /\ ret = NoResult
    /\ LET d == deleteSpace(params, cluster) IN
        /\ ret' = [data |-> d.data, err |-> d.err]
        /\ nDeleted' = nDeleted + d.deleted
    /\ UNCHANGED <<upVars, buildVars, reducerVars, field, params, cluster,
                   workerPc, ch, chClosed, nSent, thunkPc, received, panicked>>

GqlNext ==
    \/ Resolve
    \/ WorkerAuthenticate
    \/ WorkerArgs
    \/ WorkerGetSpace
    \/ WorkerList
    \/ WorkerSendData
    \/ WorkerClose
    \/ ThunkCall
    \/ ThunkReceive
    \/ ThunkReturn
    \/ ResolveDeleteSpace

GqlSpec == GqlInit /\ [][GqlNext]_vars

\* ================================================ environments reducer
\* src/frontend/src/reducers/environments-reducer.jsx.  The store calls the
\* reducer with its state and one action at a time.

\* The environments an answer of the server may list.  An id is a string (the
\* GraphQL type ID), which is what the key of a JavaScript object is.
EnvIds == {"1234", "9999"}
EnvNames == {"movies", "web"}
Environments == [id : EnvIds, name : EnvNames, endpoint : {"https://space.okteto.net"}]

RECURSIVE SeqsUpTo(_, _)
SeqsUpTo(S, n) ==
    IF n = 0 THEN {<<>>}
    ELSE LET shorter == SeqsUpTo(S, n - 1) IN
         shorter \cup {Append(q, x) : q \in shorter, x \in S}

KnownTypes == {"REQUEST_ENVIRONMENTS", "RECEIVE_ENVIRONMENTS", "HANDLE_FETCH_ERROR"}

\* The actions dispatched: the three the reducer names and one it does not.
ActionSet ==
    [type : {"REQUEST_ENVIRONMENTS", "HANDLE_FETCH_ERROR", "REQUEST_SPACES"},
     environments : {<<>>}]
    \cup [type : {"RECEIVE_ENVIRONMENTS"},
          environments : SeqsUpTo(Environments, MaxEnvs)]

\* `{}` at line 29.
EmptyMap == [k \in {} |-> NoVal]

\* An assignment that keeps the value a key already has.
Assign_KeepFirst(map, k, v) ==
    [x \in DOMAIN map \cup {k} |-> IF x \in DOMAIN map THEN map[x] ELSE v]

\* Line 27: `map[environment.id] = environment`.
Assign(map, k, v) ==
    [x \in DOMAIN map \cup {k} |-> IF x = k THEN v ELSE map[x]]

\* Lines 26-29: Array.prototype.reduce, from the left.
RECURSIVE Reduce(_, _)
Reduce(envs, map) ==
    IF envs = <<>> THEN map
    ELSE Reduce(Tail(envs), Assign(map, Head(envs).id, Head(envs)))

\* Lines 15-41.
environmentsReducer(st, act) ==
    CASE act.type = "REQUEST_ENVIRONMENTS" ->
            [st EXCEPT !.isFetching = TRUE]
      [] act.type = "RECEIVE_ENVIRONMENTS" ->
            [st EXCEPT !.byId = Reduce(act.environments, EmptyMap),
                       !.isFetching = FALSE]
      [] act.type = "HANDLE_FETCH_ERROR" ->
            [st EXCEPT !.isFetching = FALSE]
      [] OTHER -> st

\* The store starts from the reducer's default state.
ReducerInit == UpInit /\ BuildIdle /\ GqlIdle /\ ReducerIdle

\* One dispatch.  `dispatched` and `lastKnown` remember the action and the
\* type of the last action the switch has a case for.
Dispatch(act) ==
    /\ envsState' = environmentsReducer(envsState, act)
    /\ dispatched' = act
    /\ lastKnown' = IF act.type \in KnownTypes THEN act.type ELSE lastKnown
    /\ UNCHANGED <<upVars, buildVars, gqlVars>>

ReducerNext == \E act \in ActionSet : Dispatch(act)

ReducerSpec == ReducerInit /\ [][ReducerNext]_vars

\* ================================================================= claims

\* Activate takes a step.
ActivateSteps == actPc' # actPc

\* C1: when the wait of Running has ended with a non-nil cause that is
\* LostConnection, or CommandFailed with the sync engine disconnected at that
\* moment, the supervisor's next step goes to shutdown and posts nothing on
\* the exit channel; it leaves shutdown only after the scope of the iteration
\* was cancelled, back at the top of the loop with the retry flag set; and
\* every iteration after the first runs with the retry flag set.
C1_ReconnectOnLostConnection ==
    /\ [][(/\ actPc = "decide"
           /\ \/ prevError = ErrLostConnection
              \/ prevError = ErrCommandFailed /\ ~syConnected
           /\ ActivateSteps)
          => (actPc' = "shutdown" /\ exitCh' = exitCh /\ exitPosted' = NoVal)]_vars
    /\ [][(actPc = "shutdown" /\ ActivateSteps)
          => (/\ actPc' = "top"
              /\ iter \in cancelled'
              /\ retry'
              /\ exitCh' = <<>> /\ exitPosted' = NoVal)]_vars
    /\ [][(actPc = "top" /\ iter >= 1 /\ ActivateSteps)
          => (actPc' = "devMode" /\ iter' = iter + 1 /\ retry')]_vars

\* A new iteration has begun after a reconnect.
C1_Witness ==
    /\ actPc = "devMode" /\ iter = 2 /\ retry
    /\ exitPosted = NoVal
    /\ 1 \in cancelled

\* C2 as stated: when the wait ended with a nil cause, or with CommandFailed
\* while the sync engine is connected, the supervisor does not reconnect, posts
\* exactly that cause and stops, and RunUp returns that same value.
C2_Original ==
    /\ actPc = "shutdown"
        => (prevError = ErrLostConnection
            \/ (prevError = ErrCommandFailed /\ ~syConnected))
    /\ (actPc = "done" /\ prevError # NoVal)
        => (prevError \in {Nil, ErrCommandFailed} /\ exitPosted = prevError)
    /\ (mainPc = "done" /\ actPc = "done" /\ prevError # NoVal)
        => retVal = prevError

\* C2 (amended): as C2, with RunUp returning that same value when its select
\* received it from the exit channel (when the select takes the interrupt,
\* RunUp returns nil).
C2_ExitWithCause ==
    /\ actPc = "shutdown"
        => (prevError = ErrLostConnection
            \/ (prevError = ErrCommandFailed /\ ~syConnected))
    /\ (actPc = "done" /\ prevError # NoVal)
        => (prevError \in {Nil, ErrCommandFailed} /\ exitPosted = prevError)
    /\ (mainPc = "done" /\ actPc = "done" /\ prevError # NoVal)
        => (retVal = IF via = "exit" THEN prevError ELSE Nil)

\* The command failed with the sync engine connected and RunUp returned
\* CommandFailed.
C2_Witness ==
    /\ mainPc = "done" /\ via = "exit"
    /\ prevError = ErrCommandFailed /\ syConnected
    /\ retVal = ErrCommandFailed


\* The session reached Running in its current iteration: the command's task
\* was started.
WasRunning == iter >= 1 /\ execPc[iter] # "none"

\* C3: the terminal state is captured exactly once, before the first
\* iteration, and once RunUp has returned from a session that was in Running
\* (after a clean exit, a command failure or the user's interrupt) the
\* terminal is in the captured state.
C3_TerminalRestored ==
    /\ nSaves <= 1
    /\ iter >= 1 => (nSaves = 1 /\ saved = "orig")
    /\ (mainPc = "done" /\ WasRunning) => term = saved

\* C4: RunUp leaves its select only on a channel that has fired, and on the
\* interrupt when only the interrupt has fired; once it has taken the
\* interrupt, whatever the supervisor is doing, it runs shutdown and returns
\* nil.
C4_InterruptReturnsNil ==
    /\ [][(mainPc = "select" /\ mainPc' # mainPc)
          => /\ mainPc' = "shutdown"
             /\ \/ stopCh /\ via' = "interrupt" /\ retVal' = Nil
                \/ exitCh # <<>> /\ via' = "exit" /\ retVal' = Head(exitCh)
             /\ (stopCh /\ exitCh = <<>>) => via' = "interrupt"]_vars
    /\ [][via = "interrupt"
          => /\ via' = "interrupt" /\ retVal' = Nil
             /\ mainPc' # mainPc
                  => /\ mainPc = "shutdown" /\ mainPc' = "done"
                     /\ shPc[0] = "select" /\ shPc'[0] = "returned"]_vars

\* RunUp returned nil on an interrupt that came while the supervisor was
\* syncing, and its shutdown cancelled the scope.
C4_Witness ==
    /\ mainPc = "done" /\ via = "interrupt" /\ retVal = Nil
    /\ actPc = "startSync"
    /\ shPc[0] = "returned" /\ iter \in cancelled

\* C5 as stated: whenever Activate has posted a non-nil error on the exit
\* channel, RunUp returns exactly that error, after shutdown ran and
\* cancelled the scope.
C5_Original ==
    (mainPc = "done" /\ exitPosted \notin {NoVal, Nil})
        => /\ retVal = exitPosted
           /\ shPc[0] = "returned"
           /\ iter >= 1 => iter \in cancelled

\* C5 (amended): whenever RunUp's select has received a non-nil error that
\* Activate posted, RunUp returns exactly that error, after shutdown ran and
\* cancelled the scope (if the select took the interrupt before, RunUp returns
\* nil and the posted error is dropped).
C5_FatalExitRunsShutdown ==
    /\ (via = "exit" /\ exitPosted # Nil)
        => (retVal = exitPosted /\ exitCh = <<>> /\ actPc = "done")
    /\ (mainPc = "done" /\ via = "exit" /\ exitPosted # Nil)
        => /\ shPc[0] = "returned"
           /\ iter >= 1 => iter \in cancelled
    /\ (mainPc = "done" /\ via = "interrupt") => retVal = Nil

\* RunUp returned the error of startSync after its shutdown.
C5_Witness ==
    /\ mainPc = "done" /\ via = "exit"
    /\ retVal = "err: startSync"
    /\ shPc[0] = "returned" /\ iter \in cancelled

\* The call of devMode on record went as far as deployments.Get.
AskedCluster ==
    /\ devIn # NoInput
    /\ devIn.fail \notin {<<"k8Client.GetLocal", 0>>, <<"syncthing.New", 0>>}

\* The operations on record that change the cluster.
MutationsDone == {i \in 1..Len(ops) : ops[i][1] \in Mutations}

\* C6: on a retry iteration, when the workload is not found, devMode asks
\* nothing of the user, builds no sandbox workload and changes nothing in the
\* cluster: all it did was the GET; it returns NotFound, and Activate posts
\* that error and ends.
C6_RetryNotFoundIsFatal ==
    (iter >= 2 /\ AskedCluster /\ devIn.get = "notfound")
        => /\ ops = <<<<"deployments.Get=notfound", 0>>>>
           /\ actPc = "done"
           /\ exitPosted = ErrNotFound

\* A retry found the workload gone and the session ended.
C6_Witness ==
    /\ iter = 2 /\ retry /\ AskedCluster /\ devIn.get = "notfound" /\ devIn.answer
    /\ exitPosted = ErrNotFound
    /\ mainPc = "done" /\ retVal = ErrNotFound

\* C7: on a retry iteration, when the workload exists and is not in dev mode,
\* devMode returns Deactivated, Activate posts that error and ends, and no
\* secret, volume, dev-mode apply or service creation was done.
C7_RetryDeactivatedIsFatal ==
    (iter >= 2 /\ AskedCluster /\ devIn.get = "found" /\ ~devIn.devOn)
        => /\ actPc = "done"
           /\ exitPosted = ErrDeactivated
           /\ MutationsDone = {}

\* A retry found the workload out of dev mode and the session ended.
C7_Witness ==
    /\ iter = 2 /\ retry /\ AskedCluster /\ devIn.get = "found" /\ ~devIn.devOn
    /\ exitPosted = ErrDeactivated
    /\ mainPc = "done" /\ retVal = ErrDeactivated

\* C8: on the first attempt, when the workload is not found, the user is
\* asked; on "no" Activate posts the error and ends and nothing was changed in
\* the cluster; on "yes" the sandbox workload is built, dev mode is applied
\* with create = true, and the service is created right after dev mode was
\* applied, and only then.
C8_FirstAttemptPrompts ==
    (iter = 1 /\ AskedCluster /\ devIn.get = "notfound")
        => /\ Len(ops) >= 2
           /\ ops[1] = <<"deployments.Get=notfound", 0>>
           /\ ops[2] = <<IF devIn.answer THEN "askYesNo=y" ELSE "askYesNo=n", 0>>
           /\ ~devIn.answer
                => /\ Len(ops) = 2
                   /\ actPc = "done"
                   /\ exitPosted = ErrDeclined
           /\ devIn.answer
                => /\ Len(ops) >= 3
                   /\ ops[3] = <<"deployments.GevDevSandbox", 0>>
                   /\ \A i \in 1..Len(ops) :
                        /\ ops[i][1] = "deployments.DevModeOn" => ops[i][2] = 1
                        /\ (ops[i][1] = "deployments.DevModeOn" /\ i < Len(ops))
                             => ops[i + 1][1] = "services.Create"
                        /\ ops[i][1] = "services.Create"
                             => (i > 1 /\ ops[i - 1][1] = "deployments.DevModeOn")
                   /\ actPc = "newForwarder"
                        => \E i \in 1..Len(ops) : ops[i][1] = "services.Create"

\* The user accepted and devMode succeeded with the sandbox and its service.
C8_Witness ==
    /\ iter = 1 /\ AskedCluster /\ devIn.get = "notfound" /\ devIn.answer
    /\ actPc = "newForwarder"
    /\ \E i \in 1..Len(ops) : ops[i] = <<"services.Create", 0>>


\* A call of shutdown is under way: its caller stands at the call and the call
\* has not returned.
shutdownPending(c) == AtShutdown(c) /\ shPc[c] # "returned"

shutdownSteps(c) == shPc'[c] # shPc[c] \/ stopPc'[c] # stopPc[c]

\* C10: a step of shutdown on a session that is already shut down (its scope
\* cancelled or never made, each manager stopped or never made) changes no
\* scope and no manager and leaves the session shut down, and the second call
\* gets through its select like the first.
C10_ShutdownIdempotent ==
    [][\A c \in ShutdownIds :
         (SessionDown /\ shutdownSteps(c))
           => /\ cancelled' = cancelled
              /\ devMgr' = devMgr
              /\ syncMgr' = syncMgr
              /\ SessionDown'
              /\ shPc[c] = "idle" => shPc'[c] = "select"
              /\ shPc[c] = "select" => shPc'[c] \in {"select", "returned"}]_vars

\* After a reconnect's shutdown and a failed retry, RunUp's deferred shutdown
\* ran on the stopped managers of the first iteration and returned.
C10_Witness ==
    /\ mainPc = "done" /\ actPc = "done" /\ iter = 2
    /\ shPc[1] = "returned" /\ stopPc[1] = "end"
    /\ shPc[0] = "returned" /\ stopPc[0] = "end"
    /\ upDev = 1 /\ devMgr[1] = "stopped"
    /\ upSync = 1 /\ syncMgr[1] = "stopped"
    /\ cancelled = {1, 2}


\* C11: while the session is Running and RunUp still waits, the dev manager
\* of the iteration holds every forward of the dev spec and was started; and
\* once RunUp has returned from a session that was in Running, the task that
\* stops the two managers has completed and no manager is left started.
C11_ListenersReleased ==
    /\ (mainPc = "select" /\ actPc \in {"ready", "wait"})
        => /\ upDev = iter /\ devMgr[iter] = "started" /\ nAdded = NumForwards
           /\ upSync = iter /\ syncMgr[iter] = "started"
    /\ (mainPc = "done" /\ WasRunning)
        => /\ stopPc[0] = "end"
           /\ \A k \in Iters : devMgr[k] # "started" /\ syncMgr[k] # "started"


\* C12: the wait of Running ends once in an iteration, on one cause, and that
\* cause is a signal of the iteration itself: the disconnect signal of the
\* iteration, or the result of the command the iteration started.  A signal
\* of an iteration that is over is never received as the cause of a later
\* one.
C12_OneCausePerIteration ==
    [][(actPc = "wait" /\ actPc' # "wait")
        => /\ actPc' = "restore" /\ iter' = iter
           /\ \/ disconnect /\ prevError' = ErrLostConnection
              \/ /\ running[iter] # NoVal
                 /\ runFrom[iter] = iter
                 /\ prevError' = IF running[iter] = Nil THEN Nil
                                 ELSE ErrCommandFailed]_vars


\* C13: an error received from up.ErrChan during the wait of Running is
\* logged and nothing else: the supervisor is still in the wait, with no
\* cause, nothing is posted on the exit channel, no scope is cancelled and no
\* shutdown begins; and the wait ends only on the running signal or on the
\* disconnect signal, whatever number of errors it has logged.
C13_ErrorsAreNotFatal ==
    /\ [][(actPc = "wait" /\ errChan /\ ~errChan')
          => /\ actPc' = "wait" /\ logged' = logged + 1
             /\ UNCHANGED <<prevError, iter, retry, exitCh, exitPosted, cancelled,
                            mainVars, shVars, fwdVars>>]_vars
    /\ [][(actPc = "wait" /\ actPc' # "wait")
          => /\ errChan' = errChan
             /\ disconnect \/ running[iter] # NoVal
             /\ prevError' \in {Nil, ErrCommandFailed, ErrLostConnection}]_vars

\* The wait has logged two errors of background tasks and still waits.
C13_Witness ==
    /\ actPc = "wait" /\ logged = 2
    /\ prevError = NoVal /\ exitPosted = NoVal /\ mainPc = "select"
    /\ shPc[0] = "idle" /\ cancelled = {}


\* The place of a statement in startSync.
StepAt(name) == CHOOSE i \in 1..Len(SyncSteps) : SyncSteps[i] = name

\* The order C14 gives to the steps of the sync start-up.
SyncOrder ==
    <<"Sy.Run", "SyncForwarder.Start", "WaitForPing", "WaitForCompletion(1)",
      "OverrideChanges", "WaitForCompletion(2)", "Type=sendreceive", "UpdateConfig",
      "Restart">>

\* startSync has every step of SyncOrder, in that order.
SyncOrderKept ==
    /\ \A i \in 1..Len(SyncOrder) : \E j \in 1..Len(SyncSteps) : SyncSteps[j] = SyncOrder[i]
    /\ \A i \in 1..(Len(SyncOrder) - 1) : StepAt(SyncOrder[i]) < StepAt(SyncOrder[i + 1])

SecondCompletionAt == StepAt("WaitForCompletion(2)")
SyncStartAt == StepAt("SyncForwarder.Start")
SwitchAt == StepAt("Type=sendreceive")

\* C14: startSync runs its steps in the order launch the agent, start the
\* sync forwards, ping, first completion, override, second completion, switch
\* to send-receive, update the config, restart; while startSync has not gone
\* past the second completion the mode is send-only and nothing was posted,
\* the sync manager is not started before its step, and once the switch is
\* made, and in Running, the mode is send-receive.
C14_SyncOrder ==
    /\ SyncOrderKept
    /\ actPc = "startSync"
        => /\ exitPosted = NoVal
           /\ syncPc <= SecondCompletionAt => syType = "sendonly"
           /\ syncPc <= SyncStartAt => syncMgr[iter] # "started"
           /\ syncPc > SwitchAt => syType = "sendreceive"
    /\ actPc \in {"ready", "wait"} => syType = "sendreceive"

\* startSync has made the switch to send-receive and is about to restart the
\* engine.
C14_Witness ==
    /\ actPc = "startSync" /\ SyncSteps[syncPc] = "Restart"
    /\ syType = "sendreceive"
    /\ upSync = iter /\ syncMgr[iter] = "started"
    /\ mainPc = "select"


\* What C15 says of a failed sync start-up: Activate leaves startSync either
\* to go on to the banner, after the last step, or to end with the error
\* posted on the exit channel; and once that error is posted Activate has
\* ended, the command of the iteration was never started and the iteration
\* began no shutdown of its own.
SyncFailureAborts ==
    /\ [][(actPc = "startSync" /\ actPc' # "startSync")
          => \/ actPc' = "ready" /\ syncPc = Len(SyncSteps) /\ exitPosted' = NoVal
             \/ /\ actPc' = "done"
                /\ exitPosted' = "err: startSync"
                /\ exitCh' = <<"err: startSync">>
                /\ UNCHANGED <<syncVars, execVars, shVars, cancelled>>]_vars
    /\ [](exitPosted = "err: startSync"
          => /\ actPc = "done"
             /\ execPc[iter] = "none"
             /\ prevError = NoVal
             /\ shPc[iter] = "idle")

\* C15 as stated: a failed sync step aborts the session, and Activate
\* reconnects only on a connection loss received through the disconnect
\* signal during the wait of Running.
C15_Original ==
    /\ SyncFailureAborts
    /\ [](actPc = "shutdown" => (WasRunning /\ prevError = ErrLostConnection))

\* C15 (amended): a failed sync step aborts the session, and Activate
\* reconnects only on a connection loss observed once the session is Running:
\* received through the disconnect signal during the wait, or found by asking
\* the sync engine after the command failed.
C15_SyncFailureAborts ==
    /\ SyncFailureAborts
    /\ [](actPc = "shutdown"
          => /\ WasRunning
             /\ \/ prevError = ErrLostConnection
                \/ prevError = ErrCommandFailed /\ ~syConnected)

\* The second completion failed: the session ended with that error, with no
\* command started.
C15_Witness ==
    /\ exitPosted = "err: startSync" /\ actPc = "done"
    /\ SyncSteps[syncPc] = "WaitForCompletion(2)"
    /\ execPc[iter] = "none"
    /\ mainPc = "done" /\ retVal = "err: startSync"


\* A forwarder, a sync task or an Exec was started under the scope of
\* iteration k.
StartedUnder(k) ==
    \/ devMgr[k] # "none"
    \/ syncMgr[k] # "none"
    \/ k \in wg
    \/ execPc[k] # "none"

\* C16: once RunUp's final shutdown has run its cancel and a scope of the
\* session is cancelled, every scope under which a forwarder, a sync task or
\* an Exec of the session was started is cancelled, whatever the supervisor
\* does meanwhile.
C16_FinalShutdownCancelsAll ==
    (shPc[0] # "idle" /\ cancelled # {})
        => \A k \in Iters : StartedUnder(k) => k \in cancelled


\* The Exec goroutine of iteration k is still inside one of its two Exec
\* calls (lines 336-361): the remote process is attached to the terminal.
ExecAttached(k) == execPc[k] \in {"spawned", "reap", "cmd"}

\* C17: the supervisor restores the terminal (lines 175-177) only after the
\* Exec of the current iteration has returned, whichever signal ended the wait.
C17_RestoreAfterExec ==
    [][(actPc = "restore" /\ actPc' = "decide") => ~ExecAttached(iter)]_vars

\* What the call has removed from the end of the image.
Removed == SubSeq(image, Len(result) + 1, Len(image))

\* The piece c occurs in s.
Has(s, c) == \E i \in 1..Len(s) : s[i] = c

\* The last path component of s, the pieces after its last "/".
LastComponent(s) == SubSeq(s, LastIndexOf(s, "/") + 1, Len(s))

StepRank(op) ==
    CASE op[1] = "secrets.Create" -> 1
      [] op[1] = "volumes.Create" -> 2 + op[2]
      [] op[1] = "deployments.DevModeOn" -> 3 + NumVolumes
      [] op[1] = "services.Create" -> 4 + NumVolumes
      [] op[1] = "pods.GetDevPod(sync)" -> 5 + NumVolumes
      [] op[1] = "pods.GetDevPod(dev)" -> 6 + NumVolumes
      [] OTHER -> 0
LastRank == 6 + NumVolumes
ServiceRank == 4 + NumVolumes

\* The ranks of the operations on record.
RanksDone == {StepRank(ops[i]) : i \in 1..Len(ops)} \ {0}

\* The workload on record was freshly created.
FreshlyCreated == devIn.get = "notfound" /\ devIn.answer

\* The operation on record that the cluster failed (none: 0).
FailedAt ==
    IF StepRank(devIn.fail) > 0
       /\ \E i \in 1..Len(ops) : StepRank(ops[i]) = StepRank(devIn.fail)
    THEN CHOOSE i \in 1..Len(ops) : StepRank(ops[i]) = StepRank(devIn.fail)
    ELSE 0

\* C20: in one call of devMode the cluster operations are made in the order
\* secret, primary volume, declared volumes by index, dev mode, service, sync
\* pod, dev pod; an operation is made only when every earlier one was made and
\* none of them failed; the service is created if and only if the workload was
\* freshly created; the container name is recorded exactly when dev mode was
\* applied without error; a failed operation is the last one made and its
\* error is what Activate posts; and a call that succeeds has made them all.
C20_ClusterOperationOrder ==
    (AskedCluster /\ RanksDone # {}) =>
        /\ \A i, j \in 1..Len(ops) :
              (i < j /\ StepRank(ops[j]) > 0) => StepRank(ops[i]) < StepRank(ops[j])
        /\ \A r \in RanksDone : \A q \in 1..(r - 1) :
              q \in RanksDone <=> (q = ServiceRank => FreshlyCreated)
        /\ ServiceRank \in RanksDone => FreshlyCreated
        /\ FailedAt # 0 =>
              /\ FailedAt = Len(ops)
              /\ actPc = "done"
              /\ exitPosted = ErrOf(devIn.fail[1])
        /\ FailedAt = 0 =>
              /\ actPc = "newForwarder"
              /\ ops[Len(ops)] = <<"pods.GetDevPod(dev)", 0>>
              /\ RanksDone = (1..LastRank) \ (IF FreshlyCreated THEN {} ELSE {ServiceRank})
        /\ container = iter
              <=> \E i \in 1..Len(ops) :
                     /\ ops[i][1] = "deployments.DevModeOn"
                     /\ i # FailedAt

\* A first call that created the workload and failed at the sync pod: the
\* service was created, the dev pod was not asked for.
C20_Witness ==
    /\ AskedCluster /\ FreshlyCreated
    /\ devIn.fail = <<"pods.GetDevPod(sync)", 0>>
    /\ FailedAt = Len(ops)
    /\ \E i \in 1..Len(ops) : ops[i] = <<"services.Create", 0>>
    /\ container = iter
    /\ exitPosted = ErrOf("pods.GetDevPod(sync)")

\* C21: the phases of an iteration run in the order Activating, Forwarding,
\* Syncing, Running.  The dev manager is created only by the step that follows
\* a call of devMode that made its last cluster call without error; a forward
\* is added only to a manager that is not started; the manager is started only
\* when every forward was added, by the step that begins the sync start-up;
\* the remote command is launched only from the step after the last statement
\* of startSync; and once the error of a failed Add is posted, Activate has
\* ended and the manager of the iteration is not started.
C21_PhaseOrder ==
    /\ [][\A k \in Iters :
            (devMgr[k] = "none" /\ devMgr'[k] # "none")
                => /\ k = iter /\ devMgr'[k] = "new" /\ nAdded' = 0
                   /\ actPc = "newForwarder" /\ actPc' = "addForward"
                   /\ ops # <<>> /\ ops[Len(ops)] = <<"pods.GetDevPod(dev)", 0>>
                   /\ exitPosted = NoVal]_vars
    /\ [][nAdded' > nAdded
            => /\ actPc = "addForward" /\ actPc' = "addForward"
               /\ devMgr[iter] \notin {"none", "started"}]_vars
    /\ [][\A k \in Iters :
            (devMgr[k] # "started" /\ devMgr'[k] = "started")
                => /\ k = iter /\ nAdded = NumForwards
                   /\ actPc = "addForward" /\ actPc' = "startSync"]_vars
    /\ [][(actPc # "startSync" /\ actPc' = "startSync")
            => /\ actPc = "addForward" /\ nAdded = NumForwards
               /\ devMgr[iter] = "new" => devMgr'[iter] = "started"
               /\ syncMgr[iter] = "none" /\ iter \notin wg]_vars
    /\ [][\A k \in Iters :
            (execPc[k] = "none" /\ execPc'[k] # "none")
                => /\ k = iter /\ actPc = "ready" /\ actPc' = "wait"
                   /\ syncPc = Len(SyncSteps) /\ nAdded = NumForwards]_vars
    /\ [](exitPosted = "err: DevForwarder.Add"
            => /\ actPc = "done"
               /\ devMgr[iter] # "started"
               /\ nAdded < NumForwards
               /\ syncMgr[iter] = "none" /\ execPc[iter] = "none"
               /\ (mainPc = "done" /\ via = "exit") => retVal = "err: DevForwarder.Add")

\* An iteration is Running with every forward added to its started manager.
C21_Witness ==
    /\ actPc = "wait" /\ iter = 1
    /\ devMgr[1] = "started" /\ nAdded = NumForwards
    /\ syncMgr[1] = "started" /\ execPc[1] # "none"

\* The Exec task of iteration k stands at its send and no channel it may have
\* read from up.Running has room.
SendBlocked(k) ==
    /\ execPc[k] = "send"
    /\ \A j \in k..iter : running[j] # NoVal

\* C22: in an iteration that reaches Running the reap runs first, the user's
\* command runs after the reap has returned, the one value an up.Running
\* receives is the result of the command of its own iteration, and the task
\* that posts it never finds the channel full.
C22_OnePostNeverBlocks ==
    /\ \A k \in Iters : runFrom[k] \in {0, k}
    /\ \A k \in Iters : ~SendBlocked(k)

\* C23: what the wait of an iteration receives comes from a task started in
\* that iteration: the value it takes from up.Running was sent by the Exec
\* task of the same iteration.
C23_CauseFromOwnIteration ==
    [][(actPc = "wait" /\ running[iter] # NoVal /\ running'[iter] = NoVal)
        => runFrom[iter] = iter]_vars

\* C24: the stop task of the shutdown that ends iteration c leaves the dev and
\* the sync manager of every later iteration as they are.
C24_StopOnlyOwnManagers ==
    [][\A c \in Iters :
          (stopPc[c] = "pending" /\ stopPc'[c] = "end")
              => \A k \in Iters :
                    k > c => devMgr'[k] = devMgr[k] /\ syncMgr'[k] = syncMgr[k]]_vars

\* The scopes made so far that are not cancelled.
LiveScopes == (1..iter) \ cancelled

\* C25: at most one scope is live, a new scope is made only when the one
\* before it has been cancelled, and every forwarder, sync task and Exec call
\* of an iteration runs under the scope made in that iteration.
C25_OneLiveScope ==
    /\ Cardinality(LiveScopes) <= 1
    /\ \A k \in Iters : k < iter => k \in cancelled
    /\ \A k \in Iters :
          execArgs[k] # NoArgs => execArgs[k].ctx = k

\* C26: Activate posts on up.Exit at most once and ends with the post: the
\* channel is empty whenever Activate has not posted, so the send finds room
\* also when RunUp has taken the interrupt and receives nothing more; Activate
\* ends in no other way than by posting; and when RunUp returns through the
\* exit channel it returns the value Activate posted.
C26_PostOnceThenEnd ==
    /\ [][exitPosted' # exitPosted
            => /\ exitPosted = NoVal /\ exitCh = <<>>
               /\ exitCh' = <<exitPosted'>>
               /\ actPc # "done" /\ actPc' = "done"]_vars
    /\ [][actPc = "done" => actPc' = "done"]_vars
    /\ [][Len(exitCh') > Len(exitCh) => exitPosted' # exitPosted]_vars
    /\ [](/\ Len(exitCh) <= 1
          /\ exitPosted = NoVal => exitCh = <<>>
          /\ actPc = "done" <=> exitPosted # NoVal
          /\ via = "exit" => (exitPosted # NoVal /\ retVal = exitPosted /\ exitCh = <<>>)
          /\ (mainPc = "done" /\ via = "exit") => actPc = "done")

\* RunUp has taken the interrupt and is in its shutdown; Activate has posted
\* its value, which nobody will receive.
C26_Witness ==
    /\ mainPc = "shutdown" /\ via = "interrupt"
    /\ actPc = "done" /\ exitPosted # NoVal /\ exitCh = <<exitPosted>>
    /\ iter = 2

\* C27: every Exec call of the task of iteration k - the reap and the user's
\* command - is made in the dev pod that the devMode of iteration k resolved.
C27_ExecInOwnPod ==
    \A k \in Iters :
        execArgs[k] # NoArgs => execArgs[k].pod = k


\* C28: for the asynchronous resolvers (environments, space, databases), on
\* every path of the worker exactly one result is sent on the result channel,
\* the worker neither waits nor panics, nothing is sent after the channel is
\* closed, and the thunk receives that result and returns it: the error if one
\* was set, the data otherwise.  The worker of `space` panics at line 237 when
\* the query gives no id, so this does not hold.
C28_OneResultDelivered ==
    /\ ~panicked
    /\ nSent <= 1
    /\ workerPc \in {"auth", "lookup", "list", "send"} => ch = <<>> /\ ~chClosed
    /\ workerPc = "end" => nSent = 1
    /\ chClosed => nSent = 1
    /\ (workerPc \in {"end", "panic"} /\ thunkPc = "recv") => ch # <<>>
    /\ thunkPc \in {"got", "done"} =>
          /\ nSent = 1 /\ ch = <<>>
          /\ received.err # Nil => received.data = NoData
          /\ received.err = Nil => received.data = <<field, SpaceOf(params)>>
    /\ thunkPc = "done" =>
          ret = IF received.err # Nil
                THEN [data |-> NoData, err |-> received.err]
                ELSE [data |-> received.data, err |-> Nil]

\* C29: deleteSpace calls app.DeleteSpace only when the caller is
\* authenticated, the space resolves, the caller owns it and it is not the
\* caller's personal space; in every other case it returns an error and
\* app.DeleteSpace is never called.
C29_DeleteOnlyOwnedNonPersonal ==
    LET allowed == /\ params.auth /\ cluster.lookup /\ cluster.owner
                   /\ params.arg # CallerGithubID
    IN  field = "deleteSpace" =>
          /\ nDeleted <= 1
          /\ ret = NoResult => nDeleted = 0
          /\ nDeleted > 0 => allowed
          /\ (ret # NoResult /\ ~allowed) => ret.err # Nil /\ nDeleted = 0
          /\ (ret # NoResult /\ allowed) => nDeleted = 1

C29_Witness ==
    /\ field = "deleteSpace" /\ params.arg = "team" /\ cluster.owner
    /\ nDeleted = 1
    /\ ret = [data |-> <<"space", "team">>, err |-> Nil]


\* C30: in the environments reducer, after any sequence of actions,
\* isFetching is true exactly when the last recognised action was
\* REQUEST_ENVIRONMENTS; REQUEST_ENVIRONMENTS and HANDLE_FETCH_ERROR leave
\* byId unchanged; RECEIVE_ENVIRONMENTS replaces byId with the map from each
\* received environment's id to that environment, the last one for a repeated
\* id; any other action leaves the whole state unchanged.
C30_ReducerEffects ==
    /\ [](envsState.isFetching <=> lastKnown = "REQUEST_ENVIRONMENTS")
    /\ [][dispatched'.type \in {"REQUEST_ENVIRONMENTS", "HANDLE_FETCH_ERROR"}
            => envsState'.byId = envsState.byId]_vars
    /\ [][dispatched'.type = "RECEIVE_ENVIRONMENTS" =>
            LET es == dispatched'.environments
                last(k) == CHOOSE i \in 1..Len(es) :
                              /\ es[i].id = k
                              /\ \A j \in (i + 1)..Len(es) : es[j].id # k
            IN  /\ DOMAIN envsState'.byId = {es[i].id : i \in 1..Len(es)}
                /\ \A k \in DOMAIN envsState'.byId :
                      envsState'.byId[k] = es[last(k)]]_vars
    /\ [][dispatched'.type \notin KnownTypes => envsState' = envsState]_vars

C30_Witness ==
    /\ dispatched.type = "RECEIVE_ENVIRONMENTS"
    /\ Len(dispatched.environments) = 2
    /\ dispatched.environments[1].id = dispatched.environments[2].id
    /\ dispatched.environments[1].name # dispatched.environments[2].name
    /\ envsState.byId =
          [k \in {dispatched.environments[2].id} |-> dispatched.environments[2]]
    /\ ~envsState.isFetching

====
